---------------------------- MODULE Spec2Model ----------------------------
(* A model of src/script.js: the TodoApp controller (task collection,     *)
(* localStorage persistence, filtered rendering, counters, notifications).*)
EXTENDS Integers, Sequences, FiniteSets, TLC

(* ------------------------------ bounds ------------------------------- *)
\* The longest Task Collection explored: addTask is not taken beyond it.
MaxTasks == 3
\* The last clock value (milliseconds) Date.now() reaches; the clock starts at 1.
MaxClock == 2

VARIABLES
  status,            \* "ready": the constructor returned; "crashed": it threw
  error,             \* the uncaught exception of the constructor, "" when none
  tasks,             \* this.tasks
  currentFilter,     \* this.currentFilter
  store,             \* localStorage's "todoTasks" entry
  taskList,          \* children of #taskList, in document order
  totalTasksEl,      \* #totalTasks textContent
  remainingTasksEl,  \* #remainingTasks textContent
  taskInput,         \* #taskInput value
  now,               \* the wall clock Date.now() reads
  filterButtons,     \* the data-filter values of the buttons with class active
  notifications,     \* the .notification elements of document.body, in document order
  staleTimers,       \* the kinds of timer pending for notifications removed from the document
  last               \* history: the handler that ran last, and the state it started from

vars == <<status, error, tasks, currentFilter, store, taskList, totalTasksEl,
          remainingTasksEl, taskInput, now, filterButtons, notifications,
          staleTimers, last>>

\* The notification elements and their timers.
toast == <<notifications, staleTimers>>

(* ------------------------------ strings ------------------------------ *)
\* A string is a sequence of characters; these are the inputs a user types.
Inputs == { <<>>, <<" ">>, <<" ", "<", "\t">> }

IsSpace(c) == c \in {" ", "\t", "\n"}

RECURSIVE TrimStart(_)
TrimStart(s) == IF s # <<>> /\ IsSpace(Head(s)) THEN TrimStart(Tail(s)) ELSE s

RECURSIVE TrimEnd(_)
TrimEnd(s) ==
  IF s # <<>> /\ IsSpace(s[Len(s)]) THEN TrimEnd(SubSeq(s, 1, Len(s) - 1)) ELSE s

\* A mutant of Trim: the input is taken as typed.
TrimNothing(s) == s

\* String.prototype.trim
Trim(s) == TrimEnd(TrimStart(s))

\* escapeHtml: textContent -> innerHTML replaces the markup-significant characters.
escapeHtml(text) ==
  [i \in 1..Len(text) |->
     CASE text[i] = "<" -> "&lt;"
       [] text[i] = ">" -> "&gt;"
       [] text[i] = "&" -> "&amp;"
       [] OTHER -> text[i]]

\* Date.prototype.toISOString of the instant ms milliseconds after the epoch.
toISOString(ms) == <<"1970-01-01T00:00:00.00", ToString(ms), "Z">>

(* ------------------------ JSON text of the store ---------------------- *)
\* JSON text is a sequence of tokens.
LBrack == [tok |-> "["]
RBrack == [tok |-> "]"]
LBrace == [tok |-> "{"]
RBrace == [tok |-> "}"]
NullTok == [tok |-> "null"]
Key(k) == [tok |-> "key", k |-> k]
Num(n) == [tok |-> "num", n |-> n]
Str(s) == [tok |-> "str", s |-> s]
Bool(b) == [tok |-> "bool", b |-> b]

\* A mutant of StringifyTask: the completed flag is written as false.
StringifyTaskDropCompleted(task) ==
  << LBrace, Key("id"), Num(task.id), Key("text"), Str(task.text),
     Key("completed"), Bool(FALSE), Key("createdAt"), Str(task.createdAt), RBrace >>

\* JSON.stringify of one task object: its own properties in creation order.
StringifyTask(task) ==
  << LBrace, Key("id"), Num(task.id), Key("text"), Str(task.text),
     Key("completed"), Bool(task.completed),
     Key("createdAt"), Str(task.createdAt), RBrace >>

RECURSIVE StringifyItems(_)
StringifyItems(ts) ==
  IF ts = <<>> THEN <<>> ELSE StringifyTask(Head(ts)) \o StringifyItems(Tail(ts))

\* JSON.stringify(this.tasks)
JSONStringify(ts) == <<LBrack>> \o StringifyItems(ts) \o <<RBrack>>

\* The number of tokens of one serialized task object.
TaskTokens == Len(StringifyTask([id |-> 0, text |-> <<>>, completed |-> FALSE,
                                 createdAt |-> <<>>]))

IsTaskObject(toks) ==
  /\ Len(toks) = TaskTokens
  /\ toks[1] = LBrace
  /\ toks[2] = Key("id")        /\ toks[3].tok = "num"
  /\ toks[4] = Key("text")      /\ toks[5].tok = "str"
  /\ toks[6] = Key("completed") /\ toks[7].tok = "bool"
  /\ toks[8] = Key("createdAt") /\ toks[9].tok = "str"
  /\ toks[10] = RBrace

ParseTask(toks) ==
  [id |-> toks[3].n, text |-> toks[5].s, completed |-> toks[7].b,
   createdAt |-> toks[9].s]

RECURSIVE ParseItems(_)
ParseItems(toks) ==
  IF toks = <<>> THEN [ok |-> TRUE, val |-> <<>>]
  ELSE IF Len(toks) >= TaskTokens /\ IsTaskObject(SubSeq(toks, 1, TaskTokens))
  THEN LET rest == ParseItems(SubSeq(toks, TaskTokens + 1, Len(toks)))
       IN  IF rest.ok
           THEN [ok |-> TRUE,
                 val |-> <<ParseTask(SubSeq(toks, 1, TaskTokens))>> \o rest.val]
           ELSE rest
  ELSE [ok |-> FALSE, val |-> <<>>]

\* JSON.parse: ok = FALSE is a SyntaxError; otherwise the kind of value and,
\* for an array of task objects, the array.
JSONParse(toks) ==
  IF toks = <<NullTok>> THEN [ok |-> TRUE, kind |-> "null", val |-> <<>>]
  ELSE IF toks = <<LBrace, RBrace>> THEN [ok |-> TRUE, kind |-> "object", val |-> <<>>]
  ELSE IF Len(toks) >= 2 /\ toks[1] = LBrack /\ toks[Len(toks)] = RBrack
  THEN LET items == ParseItems(SubSeq(toks, 2, Len(toks) - 1))
       IN  IF items.ok THEN [ok |-> TRUE, kind |-> "array", val |-> items.val]
           ELSE [ok |-> FALSE, kind |-> "SyntaxError", val |-> <<>>]
  ELSE [ok |-> FALSE, kind |-> "SyntaxError", val |-> <<>>]

\* localStorage holds no "todoTasks" entry.
Absent == [present |-> FALSE]
Stored(toks) == [present |-> TRUE, value |-> toks]

\* localStorage.getItem("todoTasks") handed to JSON.parse: a missing entry is
\* null, which JSON.parse reads as the text null.
getItem(st) == IF st.present THEN st.value ELSE <<NullTok>>

\* A mutant of saveTasks: the write is lost and the entry keeps its old value.
saveTasksLost(ts) == store

\* saveTasks: localStorage.setItem("todoTasks", JSON.stringify(this.tasks))
saveTasks(ts) == Stored(JSONStringify(ts))

\* The "todoTasks" entries found at the first start: none, text that is not
\* JSON, JSON null, and a JSON object that is no array.
InitialStores ==
  { Absent, Stored(<<LBrace>>), Stored(<<NullTok>>), Stored(<<LBrace, RBrace>>) }


(* ------------------------- projection and view ------------------------ *)
Completed(ts) == SelectSeq(ts, LAMBDA t : t.completed)
Active(ts) == SelectSeq(ts, LAMBDA t : ~t.completed)

\* A mutant of filteredTasks: the two filters are exchanged.
filteredTasksSwapped(ts, filter) ==
  IF filter = "active" THEN Completed(ts)
  ELSE IF filter = "completed" THEN Active(ts)
  ELSE ts

\* The filtered sequence renderTasks shows.
filteredTasks(ts, filter) ==
  IF filter = "active" THEN Active(ts)
  ELSE IF filter = "completed" THEN Completed(ts)
  ELSE ts

\* A mutant of emptyStateMessage: one message for every filter.
emptyStateMessageFixed(filter) == "No tasks yet. Add your first task above!"

\* The message of the empty-state entry.
emptyStateMessage(filter) ==
  IF filter = "all" THEN "No tasks yet. Add your first task above!"
  ELSE IF filter = "active" THEN "No active tasks. All tasks are completed!"
  ELSE "No completed tasks yet."

\* One li.task-item: dataset.id, the id its listeners close over, the checked
\* class of its checkbox and the escaped text.
taskItem(task) ==
  [cls |-> "task-item", dataId |-> ToString(task.id), taskId |-> task.id,
   checked |-> task.completed, text |-> escapeHtml(task.text)]

\* renderTasks: the children of #taskList after the rebuild.
renderTasks(ts, filter) ==
  LET shown == filteredTasks(ts, filter)
  IN  IF Len(shown) = 0
      THEN << [cls |-> "empty-state", message |-> emptyStateMessage(filter)] >>
      ELSE [i \in 1..Len(shown) |-> taskItem(shown[i])]

\* updateStats: the two counters' textContent.
statsTotal(ts) == ToString(Len(ts))

\* A mutant of statsRemaining: the completed tasks are counted.
statsRemainingCompleted(ts) == ToString(Len(Completed(ts)))

statsRemaining(ts) == ToString(Len(Active(ts)))

(* ---------------------------- notifications --------------------------- *)
\* A notification element in the document is known by the timer it waits
\* for: "t3000", the removal delay, then "t300", the end of its fade-out.
\* Of the notifications removed from the document only the kinds of timer
\* still pending are kept, any number of each.
NoTimers == {}

\* A mutant of removeExisting: the notification on display is left in place.
keepExisting(body) == body

\* document.querySelector(".notification") is the first one in document
\* order; it is removed.
removeExisting(body) == IF body # <<>> THEN Tail(body) ELSE body

\* The document part of showNotification: the existing notification is
\* removed (its timer stays pending), the new one is appended to body and its
\* 3000 ms timer is set.
shown(dom) ==
  LET kept == removeExisting(dom.body)
      gone == IF Len(kept) < Len(dom.body) THEN <<Head(dom.body)>> ELSE <<>>
  IN  [body |-> Append(kept, [timer |-> "t3000"]),
       stale |-> IF gone = <<>> THEN dom.stale
                 ELSE dom.stale \cup {gone[1].timer}]

RECURSIVE shownAll(_, _)
shownAll(dom, n) == IF n = 0 THEN dom ELSE shownAll(shown(dom), n - 1)

\* The showNotification calls notes of a handler, applied to the document.
Notify(notes) ==
  LET dom == shownAll([body |-> notifications, stale |-> staleTimers], Len(notes))
  IN  /\ notifications' = dom.body
      /\ staleTimers' = dom.stale

\* The first timer's callback on element i of body, 0 for a removed element:
\* with a parentNode the fade-out starts and the 300 ms timer is set.
fadeStarted(body, i) ==
  IF i = 0 THEN body ELSE [body EXCEPT ![i].timer = "t300"]

\* A mutant of fadedOut: the callback removes the notification on display.
fadedOutDisplayed(body, i) == IF body # <<>> THEN Tail(body) ELSE body

\* The second timer's callback, notification.remove(), on element i of body,
\* 0 for a removed element.
fadedOut(body, i) ==
  IF i = 0 THEN body
  ELSE SubSeq(body, 1, i - 1) \o SubSeq(body, i + 1, Len(body))

\* showNotification(message, type): the call, appended to the handler's calls.
showNotification(notes, message, type) ==
  Append(notes, [message |-> message, type |-> type])

\* "Cleared n completed task(s)!"
clearedMessage(completedCount) ==
  << "Cleared ", ToString(completedCount), " completed task",
     IF completedCount > 1 THEN "s" ELSE "", "!" >>

(* --------------------------- task operations -------------------------- *)
\* Array.prototype.findIndex on task.id === taskId: 0-based, -1 when none.
findIndex(ts, taskId) ==
  IF \E i \in 1..Len(ts) : ts[i].id = taskId
  THEN (CHOOSE i \in 1..Len(ts) :
          /\ ts[i].id = taskId
          /\ \A j \in 1..(i - 1) : ts[j].id # taskId) - 1
  ELSE -1

\* A mutant of newTask: the task is created already completed.
newTaskCompleted(id, text, createdAt) ==
  [id |-> id, text |-> text, completed |-> TRUE, createdAt |-> createdAt]

\* The object literal of addTask.
newTask(id, text, createdAt) ==
  [id |-> id, text |-> text, completed |-> FALSE, createdAt |-> createdAt]

\* A mutant of flipCompleted: the flag is set instead of negated.
setCompleted(ts, taskIndex) == [ts EXCEPT ![taskIndex + 1].completed = TRUE]

\* A mutant of flipCompleted: every task's flag is negated.
flipEvery(ts, taskIndex) == [i \in 1..Len(ts) |-> [ts[i] EXCEPT !.completed = ~@]]

\* tasks[taskIndex].completed = !tasks[taskIndex].completed
flipCompleted(ts, taskIndex) == [ts EXCEPT ![taskIndex + 1].completed = ~@]

\* A mutant of withoutId: the first task is removed, whatever its id.
withoutFirst(ts, taskId) == IF ts = <<>> THEN ts ELSE Tail(ts)

\* tasks.filter(task => task.id !== taskId)
withoutId(ts, taskId) == SelectSeq(ts, LAMBDA t : t.id # taskId)

\* A mutant of withoutCompleted: only the first completed task is removed.
withoutFirstCompleted(ts) ==
  IF Completed(ts) = <<>> THEN ts
  ELSE LET k == CHOOSE i \in 1..Len(ts) :
                  ts[i].completed /\ \A j \in 1..(i - 1) : ~ts[j].completed
       IN  SubSeq(ts, 1, k - 1) \o SubSeq(ts, k + 1, Len(ts))

\* tasks.filter(task => !task.completed)
withoutCompleted(ts) == Active(ts)

\* A mutant of completedCount: every task is counted.
completedCountAll(ts) == Len(ts)

\* tasks.filter(task => task.completed).length
completedCount(ts) == Len(Completed(ts))

\* A mutant of confirm: the reply is not looked at.
confirmIgnored(answer) == TRUE

\* if (confirm(...)): the branch is taken on the user's reply.
confirm(answer) == answer

(* ------------------------------ history ------------------------------- *)
\* What a handler started from.
Snapshot ==
  [tasks |-> tasks, store |-> store, taskList |-> taskList,
   totalTasksEl |-> totalTasksEl, remainingTasksEl |-> remainingTasksEl,
   currentFilter |-> currentFilter]

\* The record of the handler op that has just run: its argument, the input
\* it read, whether confirm() was asked and accepted, its saveTasks calls and
\* its showNotification calls, the state it started from, whether the handler
\* before it was the same call, and then the state that one started from.
Ran(op, id, input, asked, confirmed, saves, notes) ==
  [op |-> op, id |-> id, input |-> input, asked |-> asked, confirmed |-> confirmed,
   saves |-> saves, notes |-> notes, before |-> Snapshot,
   target |-> "", calls |-> <<>>,
   again |-> (last.op = op /\ last.id = id),
   before2 |-> IF op = "toggle" /\ last.op = op /\ last.id = id
               THEN [tasks |-> last.before.tasks, store |-> last.before.store]
               ELSE [tasks |-> <<>>, store |-> Absent]]

(* ---------------------------- construction ---------------------------- *)
\* A mutant of initialFilter: a value that is no filter.
initialFilterNone == "none"

\* this.currentFilter = "all"
initialFilter == "all"

\* JSON.parse(localStorage.getItem("todoTasks")) || [] when it returns an
\* array or a falsy value.
storedTasks(st) ==
  LET parsed == JSONParse(getItem(st))
  IN  IF parsed.ok /\ parsed.kind = "array" THEN parsed.val ELSE <<>>

\* new TodoApp() over the entry st: the constructor's JSON.parse(...) || [],
\* then init(): loadTasks() renders and updateStats() fills the counters.
\* Text that is not JSON throws in the constructor's first statement; an
\* object that is no array throws in renderTasks (forEach is not a function)
\* after renderTasks has emptied #taskList.
Construct(st) ==
  LET parsed == JSONParse(getItem(st))
      loaded == storedTasks(st)
  IN  IF ~parsed.ok
      THEN [status |-> "crashed", error |-> "SyntaxError", tasks |-> <<>>,
            taskList |-> <<>>, total |-> "0", remaining |-> "0"]
      ELSE IF parsed.kind = "object"
      THEN [status |-> "crashed", error |-> "TypeError", tasks |-> <<>>,
            taskList |-> <<>>, total |-> "0", remaining |-> "0"]
      ELSE [status |-> "ready", error |-> "", tasks |-> loaded,
            taskList |-> renderTasks(loaded, initialFilter),
            total |-> statsTotal(loaded), remaining |-> statsRemaining(loaded)]

Init ==
  \E st \in InitialStores :
    LET c == Construct(st)
    IN  /\ store = st
        /\ status = c.status
        /\ error = c.error
        /\ tasks = c.tasks
        /\ currentFilter = initialFilter
        /\ taskList = c.taskList
        /\ totalTasksEl = c.total
        /\ remainingTasksEl = c.remaining
        /\ taskInput = <<>>
        /\ now = 1
        /\ filterButtons = {initialFilter}
        /\ notifications = <<>>
        /\ staleTimers = NoTimers
        /\ last = [op |-> "start", id |-> -1, input |-> <<>>, asked |-> FALSE,
                   confirmed |-> FALSE, saves |-> 0, notes |-> <<>>,
                   before |-> [tasks |-> <<>>, store |-> st, taskList |-> <<>>,
                               totalTasksEl |-> "0", remainingTasksEl |-> "0",
                               currentFilter |-> "all"],
                   target |-> "", calls |-> <<>>,
                   again |-> FALSE,
                   before2 |-> [tasks |-> <<>>, store |-> Absent]]

(* ------------------------------ actions ------------------------------- *)
\* The wall clock advances.
Tick ==
  /\ now < MaxClock
  /\ now' = now + 1
  /\ UNCHANGED <<status, error, tasks, currentFilter, store, taskList,
                 totalTasksEl, remainingTasksEl, taskInput, filterButtons,
                 toast, last>>

\* The user edits #taskInput.
TypeInput ==
  /\ status = "ready"
  /\ \E v \in Inputs : v # taskInput /\ taskInput' = v
  /\ UNCHANGED <<status, error, tasks, currentFilter, store, taskList,
                 totalTasksEl, remainingTasksEl, now, filterButtons, toast, last>>

\* addTask: the click on #addTaskBtn or Enter in #taskInput. Date.now() and
\* new Date() read the clock within the same millisecond.
AddTask ==
  /\ status = "ready"
  /\ LET taskText == Trim(taskInput)
     IN  IF taskText = <<>>
         THEN /\ LET notes == showNotification(<<>>, <<"Please enter a task!">>, "warning")
                 IN  last' = Ran("add", -1, taskInput, FALSE, FALSE, 0, notes)
                     /\ Notify(notes)
              /\ UNCHANGED <<tasks, store, taskList, totalTasksEl,
                             remainingTasksEl, taskInput>>
         ELSE /\ Len(tasks) < MaxTasks
              /\ tasks' = Append(tasks, newTask(now, taskText, toISOString(now)))
              /\ store' = saveTasks(tasks')
              /\ taskList' = renderTasks(tasks', currentFilter)
              /\ totalTasksEl' = statsTotal(tasks')
              /\ remainingTasksEl' = statsRemaining(tasks')
              /\ taskInput' = <<>>
              /\ LET notes == showNotification(<<>>, <<"Task added successfully!">>, "success")
                 IN  last' = Ran("add", now, taskInput, FALSE, FALSE, 1, notes)
                     /\ Notify(notes)
  /\ UNCHANGED <<status, error, currentFilter, now, filterButtons>>

\* toggleTaskCompletion(taskId): a click on a row or its checkbox.
ToggleTaskCompletion(taskId) ==
  /\ status = "ready"
  /\ LET taskIndex == findIndex(tasks, taskId)
     IN  IF taskIndex # -1
         THEN /\ tasks' = flipCompleted(tasks, taskIndex)
              /\ store' = saveTasks(tasks')
              /\ taskList' = renderTasks(tasks', currentFilter)
              /\ totalTasksEl' = statsTotal(tasks')
              /\ remainingTasksEl' = statsRemaining(tasks')
              /\ last' = Ran("toggle", taskId, <<>>, FALSE, FALSE, 1, <<>>)
         ELSE /\ last' = Ran("toggle", taskId, <<>>, FALSE, FALSE, 0, <<>>)
              /\ UNCHANGED <<tasks, store, taskList, totalTasksEl, remainingTasksEl>>
  /\ UNCHANGED <<status, error, currentFilter, taskInput, now, filterButtons, toast>>

\* deleteTask(taskId): a click on a row's delete button, or the Delete key.
DeleteTask(taskId) ==
  /\ status = "ready"
  /\ tasks' = withoutId(tasks, taskId)
  /\ store' = saveTasks(tasks')
  /\ taskList' = renderTasks(tasks', currentFilter)
  /\ totalTasksEl' = statsTotal(tasks')
  /\ remainingTasksEl' = statsRemaining(tasks')
  /\ LET notes == showNotification(<<>>, <<"Task deleted!">>, "info")
     IN  last' = Ran("delete", taskId, <<>>, FALSE, FALSE, 1, notes)
         /\ Notify(notes)
  /\ UNCHANGED <<status, error, currentFilter, taskInput, now, filterButtons>>

\* clearCompletedTasks: a click on #clearCompletedBtn; answer is what the
\* user replies to confirm().
ClearCompletedTasks(answer) ==
  /\ status = "ready"
  /\ LET count == completedCount(tasks)
     IN  IF count = 0
         THEN /\ answer = FALSE
              /\ LET notes == showNotification(<<>>, <<"No completed tasks to clear!">>, "info")
                 IN  last' = Ran("clear", -1, <<>>, FALSE, FALSE, 0, notes)
                     /\ Notify(notes)
              /\ UNCHANGED <<tasks, store, taskList, totalTasksEl, remainingTasksEl>>
         ELSE IF confirm(answer)
         THEN /\ tasks' = withoutCompleted(tasks)
              /\ store' = saveTasks(tasks')
              /\ taskList' = renderTasks(tasks', currentFilter)
              /\ totalTasksEl' = statsTotal(tasks')
              /\ remainingTasksEl' = statsRemaining(tasks')
              /\ LET notes == showNotification(<<>>, clearedMessage(count), "success")
                 IN  last' = Ran("clear", -1, <<>>, TRUE, answer, 1, notes)
                     /\ Notify(notes)
         ELSE /\ last' = Ran("clear", -1, <<>>, TRUE, answer, 0, <<>>)
              /\ UNCHANGED <<tasks, store, taskList, totalTasksEl, remainingTasksEl,
                             toast>>
  /\ UNCHANGED <<status, error, currentFilter, taskInput, now, filterButtons>>

\* The data-filter values of the filter buttons.
Filters == {"all", "active", "completed"}

\* A mutant of SetFilter: the handler also saves and refreshes the counters
\* from the filtered sequence.
SetFilterSaving(filter) ==
  /\ status = "ready"
  /\ currentFilter' = filter
  /\ taskList' = renderTasks(tasks, filter)
  /\ store' = saveTasks(tasks)
  /\ totalTasksEl' = statsTotal(filteredTasks(tasks, filter))
  /\ remainingTasksEl' = statsRemaining(filteredTasks(tasks, filter))
  /\ filterButtons' = {filter}
  /\ last' = Ran("setFilter", -1, <<>>, FALSE, FALSE, 1, <<>>)
  /\ UNCHANGED <<status, error, tasks, taskInput, now, toast>>

\* setFilter(filter): a click on a filter button; the button of the filter
\* gets the class active, the others lose it.
SetFilter(filter) ==
  /\ status = "ready"
  /\ currentFilter' = filter
  /\ taskList' = renderTasks(tasks, filter)
  /\ filterButtons' = {filter}
  /\ last' = Ran("setFilter", -1, <<>>, FALSE, FALSE, 0, <<>>)
  /\ UNCHANGED <<status, error, tasks, store, totalTasksEl, remainingTasksEl,
                 taskInput, now, toast>>

\* The session ends and the page is opened again: DOMContentLoaded runs
\* new TodoApp() over the same localStorage, in a fresh document without
\* the old one's notifications and timers.
Reload ==
  /\ status = "ready"
  /\ LET c == Construct(store)
     IN  /\ status' = c.status
         /\ error' = c.error
         /\ tasks' = c.tasks
         /\ taskList' = c.taskList
         /\ totalTasksEl' = c.total
         /\ remainingTasksEl' = c.remaining
  /\ currentFilter' = initialFilter
  /\ taskInput' = <<>>
  /\ filterButtons' = {initialFilter}
  /\ notifications' = <<>>
  /\ staleTimers' = NoTimers
  /\ last' = Ran("restart", -1, <<>>, FALSE, FALSE, 0, <<>>)
  /\ UNCHANGED <<store, now>>

\* The elements of a row a click can land on: the li itself, the checkbox
\* div and the check icon inside it (present when the task is completed),
\* the text, the actions div, the delete button and its icon.
Targets(row) ==
  {"li", "checkbox", "content", "actions", "deleteBtn", "deleteIcon"}
    \cup (IF row.checked THEN {"checkIcon"} ELSE {})

\* The target and its ancestors up to the li, innermost first.
path(target) ==
  CASE target = "li" -> <<"li">>
    [] target = "checkbox" -> <<"checkbox", "li">>
    [] target = "checkIcon" -> <<"checkIcon", "checkbox", "li">>
    [] target = "content" -> <<"content", "li">>
    [] target = "actions" -> <<"actions", "li">>
    [] target = "deleteBtn" -> <<"deleteBtn", "actions", "li">>
    [] target = "deleteIcon" -> <<"deleteIcon", "deleteBtn", "actions", "li">>

\* e.target.closest(selector) is not null; node is the element of the row
\* the selector matches.
closest(target, node) == \E k \in 1..Len(path(target)) : path(target)[k] = node

\* A mutant of rowListener: clicks inside the checkbox are not excluded.
rowListenerNoCheckboxTest(target) ==
  IF ~closest(target, "deleteBtn") THEN <<"toggle">> ELSE <<>>

\* The click listener of the li: toggles unless the click is inside the
\* delete button or the checkbox.
rowListener(target) ==
  IF ~closest(target, "deleteBtn") /\ ~closest(target, "checkbox")
  THEN <<"toggle">> ELSE <<>>

\* The listeners a click on target runs while it bubbles from the target to
\* the li, as the calls they make, in order.
RECURSIVE listenerCalls(_, _)
listenerCalls(target, nodes) ==
  IF nodes = <<>> THEN <<>>
  ELSE (CASE Head(nodes) = "checkbox" -> <<"toggle">>
          [] Head(nodes) = "deleteBtn" -> <<"delete">>
          [] Head(nodes) = "li" -> rowListener(target)
          [] OTHER -> <<>>)
       \o listenerCalls(target, Tail(nodes))

\* One call of toggleTaskCompletion or deleteTask on the collection ts, with
\* the saveTasks and showNotification calls made so far.
called(st, call, taskId) ==
  IF call = "toggle"
  THEN LET taskIndex == findIndex(st.tasks, taskId)
       IN  IF taskIndex # -1
           THEN [st EXCEPT !.tasks = flipCompleted(st.tasks, taskIndex),
                           !.saves = @ + 1]
           ELSE st
  ELSE [st EXCEPT !.tasks = withoutId(st.tasks, taskId),
                  !.saves = @ + 1,
                  !.notes = showNotification(@, <<"Task deleted!">>, "info")]

RECURSIVE calledAll(_, _, _)
calledAll(st, calls, taskId) ==
  IF calls = <<>> THEN st
  ELSE calledAll(called(st, Head(calls), taskId), Tail(calls), taskId)

\* A click on element target of row i of #taskList: the listeners bound by
\* renderTasks run with the task.id of the row.
RowClick(i, target) ==
  /\ status = "ready"
  /\ i \in 1..Len(taskList)
  /\ taskList[i].cls = "task-item"
  /\ target \in Targets(taskList[i])
  /\ LET taskId == taskList[i].taskId
         calls == listenerCalls(target, path(target))
         done == calledAll([tasks |-> tasks, saves |-> 0, notes |-> <<>>],
                           calls, taskId)
     IN  /\ tasks' = done.tasks
         /\ IF done.saves > 0
            THEN /\ store' = saveTasks(tasks')
                 /\ taskList' = renderTasks(tasks', currentFilter)
                 /\ totalTasksEl' = statsTotal(tasks')
                 /\ remainingTasksEl' = statsRemaining(tasks')
            ELSE UNCHANGED <<store, taskList, totalTasksEl, remainingTasksEl>>
         /\ Notify(done.notes)
         /\ last' = [Ran("click", taskId, <<>>, FALSE, FALSE, done.saves, done.notes)
                       EXCEPT !.target = target, !.calls = calls]
  /\ UNCHANGED <<status, error, currentFilter, taskInput, now, filterButtons>>

\* The 3000 ms timer of a notification fires: of element i of body, or
\* (i = 0) of a notification that has been removed, which may or may not be
\* the last such timer pending.
RemovalTimer(i) ==
  /\ IF i = 0
     THEN /\ "t3000" \in staleTimers
          /\ staleTimers' \in {staleTimers, staleTimers \ {"t3000"}}
     ELSE /\ i \in 1..Len(notifications)
          /\ notifications[i].timer = "t3000"
          /\ UNCHANGED staleTimers
  /\ notifications' = fadeStarted(notifications, i)
  /\ UNCHANGED <<status, error, tasks, currentFilter, store, taskList,
                 totalTasksEl, remainingTasksEl, taskInput, now, filterButtons, last>>

\* The 300 ms timer set by the first fires: notification.remove().
FadeTimer(i) ==
  /\ IF i = 0
     THEN /\ "t300" \in staleTimers
          /\ staleTimers' \in {staleTimers, staleTimers \ {"t300"}}
     ELSE /\ i \in 1..Len(notifications)
          /\ notifications[i].timer = "t300"
          /\ UNCHANGED staleTimers
  /\ notifications' = fadedOut(notifications, i)
  /\ UNCHANGED <<status, error, tasks, currentFilter, store, taskList,
                 totalTasksEl, remainingTasksEl, taskInput, now, filterButtons, last>>

\* The ids handed to toggleTaskCompletion and deleteTask: every clock value,
\* and 0, which no task ever has.
TaskIds == 0..MaxClock

\* The operations on the task collection. The notification timers are left
\* out: a notification stays for three seconds, the operations neither read
\* the notification elements nor wait for them.
Next ==
  \/ Tick
  \/ TypeInput
  \/ AddTask
  \/ \E taskId \in TaskIds : ToggleTaskCompletion(taskId)
  \/ \E taskId \in TaskIds : DeleteTask(taskId)
  \/ \E answer \in BOOLEAN : ClearCompletedTasks(answer)
  \/ \E filter \in Filters : SetFilter(filter)
  \/ Reload

Spec == Init /\ [][Next]_vars

\* The handlers that call showNotification, interleaved with the timers of
\* the notifications.
NextToast ==
  \/ TypeInput
  \/ AddTask
  \/ \E taskId \in TaskIds : DeleteTask(taskId)
  \/ \E answer \in BOOLEAN : ClearCompletedTasks(answer)
  \/ \E i \in 0..Len(notifications) : RemovalTimer(i)
  \/ \E i \in 0..Len(notifications) : FadeTimer(i)

SpecToast == Init /\ [][NextToast]_vars

\* The operations as the page offers them: typing, adding, clicking on the
\* rows shown and selecting a filter.
NextClicks ==
  \/ Tick
  \/ TypeInput
  \/ AddTask
  \/ \E i \in 1..MaxTasks, target \in Targets([checked |-> TRUE]) : RowClick(i, target)
  \/ \E filter \in Filters : SetFilter(filter)

SpecClicks == Init /\ [][NextClicks]_vars

(* ------------------------------ properties ---------------------------- *)
\* The user-interaction handlers.
Handlers == {"add", "toggle", "delete", "clear", "setFilter"}

HandlerDone == status = "ready" /\ last.op \in Handlers

WhitespaceOnly(s) == \A i \in 1..Len(s) : IsSpace(s[i])

HasId(ts, id) == \E i \in 1..Len(ts) : ts[i].id = id

\* C1: in every reachable state all ids in the Task Collection are pairwise
\* distinct, also after several adds that read the same clock value.
C1_IdsPairwiseDistinct ==
  \A i, j \in 1..Len(tasks) : i # j => tasks[i].id # tasks[j].id

\* C2 as stated: whenever a handler has run to completion, the todoTasks entry
\* is either absent with an empty collection in memory, or exactly the
\* serialization of the collection in memory.
C2_AbsentOrSerialization ==
  HandlerDone =>
    \/ ~store.present /\ tasks = <<>>
    \/ store = Stored(JSONStringify(tasks))

\* C2 as amended: whenever a handler has run to completion, the todoTasks
\* entry is either exactly the serialization of the collection in memory, or
\* still the entry found at startup, which deserializes as load reads it
\* (absent or JSON null gives the empty collection) to the collection in memory.
C2_Reconciled ==
  HandlerDone =>
    \/ store = Stored(JSONStringify(tasks))
    \/ store \in InitialStores /\ storedTasks(store) = tasks

\* C2's case: a handler changed the collection and the entry follows it.
C2_Witness ==
  /\ HandlerDone
  /\ tasks # last.before.tasks
  /\ Len(tasks) >= 2
  /\ store # last.before.store

\* C3: at startup load never raises: with the todoTasks entry absent,
\* unparsable or no array, the controller starts with an empty collection
\* and initialization completes normally.
C3_LoadNeverRaises ==
  (last.op = "start" /\ store \in InitialStores) => (status = "ready" /\ tasks = <<>>)

\* C4: ending the session and constructing a new controller over the same
\* store yields the collection that was in memory (same tasks, order and
\* fields), with the filter reset to all.
C4_CrossSessionRoundTrip ==
  last.op = "restart" =>
    /\ status = "ready"
    /\ tasks = last.before.tasks
    /\ currentFilter = "all"

\* C4's case: a restart over a collection of several tasks, one completed,
\* from a session whose filter was not all.
C4_Witness ==
  /\ last.op = "restart"
  /\ Len(last.before.tasks) >= 2
  /\ \E i \in 1..Len(last.before.tasks) : last.before.tasks[i].completed
  /\ last.before.currentFilter # "all"

\* C5: add with empty or whitespace-only input leaves the collection, the
\* store and the rendered view unchanged and issues exactly one warning.
C5_EmptyAddRejected ==
  (HandlerDone /\ last.op = "add" /\ WhitespaceOnly(last.input)) =>
    /\ tasks = last.before.tasks
    /\ store = last.before.store
    /\ taskList = last.before.taskList
    /\ Len(last.notes) = 1
    /\ last.notes[1].type = "warning"

\* C5's case: whitespace-only input was added to a non-empty collection.
C5_Witness ==
  /\ HandlerDone /\ last.op = "add"
  /\ last.input # <<>> /\ WhitespaceOnly(last.input)
  /\ Len(tasks) >= 1

\* C6: an add whose trimmed text is non-empty appends exactly one new task,
\* not completed, at the end, leaves the tasks already present unchanged and
\* in order, and issues one success notification.
C6_AddAppendsOne ==
  (HandlerDone /\ last.op = "add" /\ ~WhitespaceOnly(last.input)) =>
    /\ Len(tasks) = Len(last.before.tasks) + 1
    /\ SubSeq(tasks, 1, Len(tasks) - 1) = last.before.tasks
    /\ tasks[Len(tasks)].completed = FALSE
    /\ ~WhitespaceOnly(tasks[Len(tasks)].text)
    /\ Len(last.notes) = 1
    /\ last.notes[1].type = "success"

\* C6's case: the third task was added after a completed one.
C6_Witness ==
  /\ HandlerDone /\ last.op = "add" /\ ~WhitespaceOnly(last.input)
  /\ Len(tasks) = 3
  /\ tasks[1].completed

\* C7: delete(id) removes exactly one task, the one matching id, when id is
\* present (the others stay, in order), and leaves the length unchanged when
\* id is absent.
C7_DeleteRemovesExactlyOne ==
  (HandlerDone /\ last.op = "delete") =>
    IF HasId(last.before.tasks, last.id)
    THEN /\ Len(tasks) = Len(last.before.tasks) - 1
         /\ tasks = SelectSeq(last.before.tasks, LAMBDA t : t.id # last.id)
    ELSE Len(tasks) = Len(last.before.tasks)

\* C8: toggleCompletion or delete with an id that is not in the collection
\* is a silent no-op: collection and store unchanged, no notification.
C8_AbsentIdSilentNoOp ==
  (HandlerDone /\ last.op \in {"toggle", "delete"}
     /\ ~HasId(last.before.tasks, last.id)) =>
    /\ tasks = last.before.tasks
    /\ store = last.before.store
    /\ last.notes = <<>>

\* C9: toggleCompletion(id) applied twice in a row returns the collection
\* (every completed flag) and the store to what they were before the first
\* toggle; toggling an absent id never changes the length.
C9_ToggleTwiceRestores ==
  (HandlerDone /\ last.op = "toggle") =>
    /\ last.again => (tasks = last.before2.tasks /\ store = last.before2.store)
    /\ ~HasId(last.before.tasks, last.id) => Len(tasks) = Len(last.before.tasks)

\* C9's case: the same present id was toggled twice in a row.
C9_Witness ==
  /\ HandlerDone /\ last.op = "toggle" /\ last.again
  /\ HasId(tasks, last.id)
  /\ tasks # last.before.tasks
  /\ Len(tasks) >= 2

\* C10: clearCompleted with n > 0 completed tasks and confirmation accepted
\* removes exactly those n tasks in one persisted mutation, leaves the
\* incomplete tasks untouched and in order, and reports n in one success
\* notification.
C10_ClearRemovesCompleted ==
  (HandlerDone /\ last.op = "clear" /\ last.confirmed) =>
    LET n == Cardinality({i \in 1..Len(last.before.tasks) :
                            last.before.tasks[i].completed})
    IN  /\ n > 0
        /\ tasks = SelectSeq(last.before.tasks, LAMBDA t : ~t.completed)
        /\ Len(tasks) = Len(last.before.tasks) - n
        /\ last.saves = 1
        /\ store = Stored(JSONStringify(tasks))
        /\ Len(last.notes) = 1
        /\ last.notes[1].type = "success"
        /\ last.notes[1].message[2] = ToString(n)

\* C10's case: one completed task between two incomplete ones was cleared.
C10_Witness ==
  /\ HandlerDone /\ last.op = "clear" /\ last.confirmed
  /\ Len(last.before.tasks) = 3
  /\ last.before.tasks[2].completed
  /\ Len(tasks) = 2

\* The tasks of ts that the filter mode shows, by the rule of the spec.
Projection(ts, mode) ==
  CASE mode = "all" -> ts
    [] mode = "active" -> SelectSeq(ts, LAMBDA t : t.completed = FALSE)
    [] mode = "completed" -> SelectSeq(ts, LAMBDA t : t.completed = TRUE)

NumCompleted(ts) == Cardinality({i \in 1..Len(ts) : ts[i].completed})

\* C11: clearCompleted with zero completed tasks changes neither the
\* collection nor the store, does not ask for confirmation, and issues
\* exactly one info notification.
C11_ClearNothingToClear ==
  (HandlerDone /\ last.op = "clear" /\ NumCompleted(last.before.tasks) = 0) =>
    /\ tasks = last.before.tasks
    /\ store = last.before.store
    /\ last.saves = 0
    /\ ~last.asked
    /\ Len(last.notes) = 1
    /\ last.notes[1].type = "info"

\* C11's case: clearCompleted ran over tasks none of which is completed.
C11_Witness ==
  /\ HandlerDone /\ last.op = "clear"
  /\ Len(last.before.tasks) >= 2
  /\ NumCompleted(last.before.tasks) = 0

\* C12: clearCompleted with n > 0 completed tasks whose confirmation is
\* declined leaves collection, store, rendered view and counters unchanged
\* and issues no notification.
C12_DeclinedClearChangesNothing ==
  (HandlerDone /\ last.op = "clear" /\ NumCompleted(last.before.tasks) > 0
     /\ ~last.confirmed) =>
    /\ last.asked
    /\ tasks = last.before.tasks
    /\ store = last.before.store
    /\ taskList = last.before.taskList
    /\ totalTasksEl = last.before.totalTasksEl
    /\ remainingTasksEl = last.before.remainingTasksEl
    /\ last.notes = <<>>

\* C12's case: the confirmation was declined with a completed task present.
C12_Witness ==
  /\ HandlerDone /\ last.op = "clear" /\ last.asked /\ ~last.confirmed
  /\ NumCompleted(tasks) >= 1
  /\ Len(tasks) >= 2

\* C13: after initialization and after every handler the visible task rows
\* are the projection of the collection under the filter mode, in insertion
\* order, each row showing the task's current completed state.
C13_RowsAreProjection ==
  status = "ready" =>
    LET proj == Projection(tasks, currentFilter)
        rows == SelectSeq(taskList, LAMBDA r : r.cls = "task-item")
    IN  /\ Len(rows) = Len(proj)
        /\ \A i \in 1..Len(proj) :
             /\ rows[i].taskId = proj[i].id
             /\ rows[i].checked = proj[i].completed

\* C13's case: under the completed filter a toggle left one of several tasks
\* visible.
C13_Witness ==
  /\ HandlerDone /\ last.op = "toggle"
  /\ currentFilter = "completed"
  /\ Len(tasks) >= 2
  /\ Len(taskList) = 1 /\ taskList[1].cls = "task-item"

\* C14: after initialization and after every handler the counters show
\* total = the number of tasks and remaining = the number of tasks not
\* completed, of the unfiltered collection, whatever the filter mode.
C14_CountersUnfiltered ==
  status = "ready" =>
    /\ totalTasksEl = ToString(Len(tasks))
    /\ remainingTasksEl = ToString(Len(tasks) - NumCompleted(tasks))

\* C14's case: three tasks, one completed, seen through the completed filter.
C14_Witness ==
  /\ HandlerDone /\ last.op = "setFilter"
  /\ currentFilter = "completed"
  /\ Len(tasks) = 3
  /\ totalTasksEl = "3" /\ remainingTasksEl = "2"

\* C15: the rendered list holds exactly one empty-state entry and no task
\* row if and only if the filtered sequence is empty, with the message the
\* filter mode selects; otherwise it holds no empty-state entry.
C15_EmptyState ==
  status = "ready" =>
    LET proj == Projection(tasks, currentFilter)
        empties == SelectSeq(taskList, LAMBDA r : r.cls = "empty-state")
    IN  IF proj = <<>>
        THEN /\ Len(taskList) = 1
             /\ Len(empties) = 1
             /\ empties[1].message =
                  CASE currentFilter = "all" -> "No tasks yet. Add your first task above!"
                    [] currentFilter = "active" -> "No active tasks. All tasks are completed!"
                    [] currentFilter = "completed" -> "No completed tasks yet."
        ELSE empties = <<>>

\* C15's case: every task is completed and the active filter shows the
\* empty-state entry.
C15_Witness ==
  /\ status = "ready"
  /\ tasks # <<>>
  /\ currentFilter = "active"
  /\ Len(taskList) = 1 /\ taskList[1].cls = "empty-state"

\* C17: the filter mode is all on initialization and has, in every reachable
\* state, a value among all, active and completed.
C17_FilterEnumerated ==
  status = "ready" =>
    /\ last.op \in {"start", "restart"} => currentFilter = "all"
    /\ currentFilter \in {"all", "active", "completed"}

\* C17's case: filters were selected and the session restarted from one.
C17_Witness ==
  /\ status = "ready"
  /\ last.op = "restart"
  /\ last.before.currentFilter = "completed"

\* C18: selecting a filter changes only the filter mode and the rendered
\* view: collection, store and counters stay, and no notification is issued.
C18_SetFilterFrame ==
  (HandlerDone /\ last.op = "setFilter") =>
    /\ tasks = last.before.tasks
    /\ store = last.before.store
    /\ totalTasksEl = last.before.totalTasksEl
    /\ remainingTasksEl = last.before.remainingTasksEl
    /\ last.saves = 0
    /\ last.notes = <<>>

\* C18's case: a filter selection changed the mode and the view.
C18_Witness ==
  /\ HandlerDone /\ last.op = "setFilter"
  /\ currentFilter # last.before.currentFilter
  /\ taskList # last.before.taskList
  /\ Len(tasks) >= 2

RECURSIVE IsSubsequence(_, _)
IsSubsequence(a, b) ==
  IF a = <<>> THEN TRUE
  ELSE IF b = <<>> THEN FALSE
  ELSE IF Head(a) = Head(b) THEN IsSubsequence(Tail(a), Tail(b))
  ELSE IsSubsequence(a, Tail(b))

\* C20: no operation changes id, text or createdAt of a task in the
\* collection: toggleCompletion(id) changes only the completed flag of the
\* task matching id and leaves the others, the length and the order; delete
\* and clearCompleted only remove tasks; add only appends.
C20_TasksImmutable ==
  HandlerDone =>
    LET old == last.before.tasks
    IN  CASE last.op = "toggle" ->
               /\ Len(tasks) = Len(old)
               /\ \A i \in 1..Len(old) :
                    /\ tasks[i].id = old[i].id
                    /\ tasks[i].text = old[i].text
                    /\ tasks[i].createdAt = old[i].createdAt
                    /\ tasks[i].completed # old[i].completed => old[i].id = last.id
               /\ Cardinality({i \in 1..Len(old) :
                                 tasks[i].completed # old[i].completed}) <= 1
          [] last.op \in {"delete", "clear"} -> IsSubsequence(tasks, old)
          [] last.op = "add" ->
               /\ Len(tasks) >= Len(old)
               /\ SubSeq(tasks, 1, Len(old)) = old
          [] last.op = "setFilter" -> tasks = old

\* C20's case: a toggle flipped one of several tasks.
C20_Witness ==
  /\ HandlerDone /\ last.op = "toggle"
  /\ Len(tasks) >= 2
  /\ tasks # last.before.tasks

\* C16: at most one notification is displayed at any time: a new one
\* removes the one on display before it is shown, and the timers of a
\* removed notification neither remove nor duplicate a newer one, under any
\* interleaving of showNotification calls and timer firings.
C16_AtMostOneNotification ==
  [][ /\ Len(notifications') <= 1
      /\ (last' # last /\ last'.notes # <<>>) =>
           notifications' = <<[timer |-> "t3000"]>>
      /\ (notifications' # notifications) =>
           \/ notifications' = <<[timer |-> "t3000"]>>
           \/ /\ notifications = <<[timer |-> "t3000"]>>
              /\ notifications' = <<[timer |-> "t300"]>>
              /\ staleTimers' = staleTimers
           \/ /\ notifications = <<[timer |-> "t300"]>>
              /\ notifications' = <<>>
              /\ staleTimers' = staleTimers
      /\ (staleTimers' # staleTimers /\ staleTimers' \subseteq staleTimers) =>
           notifications' = notifications
    ]_vars

\* C16's case: timers of two removed notifications, one of each kind, are
\* pending while a newer notification is on display.
C16_Witness ==
  /\ staleTimers = {"t3000", "t300"}
  /\ Len(notifications) = 1

\* C19: a click on a visible row dispatches exactly one operation for the
\* row's task: on the delete button (or inside it) delete(id) and no toggle,
\* anywhere else toggleCompletion(id) exactly once.
C19_OneOperationPerClick ==
  (status = "ready" /\ last.op = "click") =>
    /\ Len(last.calls) = 1
    /\ last.calls[1] = (IF last.target \in {"deleteBtn", "deleteIcon"}
                        THEN "delete" ELSE "toggle")
    /\ HasId(last.before.tasks, last.id)
    /\ IF last.target \in {"deleteBtn", "deleteIcon"}
       THEN /\ tasks = SelectSeq(last.before.tasks, LAMBDA t : t.id # last.id)
            /\ Len(last.notes) = 1
       ELSE /\ Len(tasks) = Len(last.before.tasks)
            /\ Cardinality({k \in 1..Len(tasks) :
                 tasks[k].completed # last.before.tasks[k].completed}) = 1
            /\ last.notes = <<>>

\* C19's case: a click on the check icon of a completed task among several.
C19_Witness ==
  /\ status = "ready" /\ last.op = "click"
  /\ last.target = "checkIcon"
  /\ Len(tasks) >= 2

=============================================================================
